---- MODULE Spec2Model ----
(***************************************************************************)
(* Model of restful.Test (src/restful.py): a file-driven snapshot tester   *)
(* for REST endpoints.  The four directories are key-value stores from     *)
(* file name to content; file names and text are sequences of characters,  *)
(* so that sorting, suffix stripping and newline translation are computed  *)
(* the way Python computes them.                                           *)
(***************************************************************************)
EXTENDS Integers, Sequences, FiniteSets, TLC

(***************************************************************************)
(* Characters and strings                                                  *)
(***************************************************************************)
CR == "<CR>"
LF == "<LF>"

\* Code points of the characters used in file names (Python compares
\* str values code point by code point).
Ord(c) ==
    CASE c = "-" -> 45
      [] c = "." -> 46
      [] c = "a" -> 97
      [] c = "b" -> 98
      [] c = "c" -> 99
      [] c = "e" -> 101
      [] c = "h" -> 104
      [] c = "k" -> 107
      [] c = "m" -> 109
      [] c = "n" -> 110
      [] c = "o" -> 111
      [] c = "p" -> 112
      [] c = "r" -> 114
      [] c = "s" -> 115
      [] c = "t" -> 116
      [] c = "x" -> 120

\* s < t for Python strings: lexicographic on code points, a proper
\* prefix is smaller.
RECURSIVE StrLess(_, _)
StrLess(s, t) ==
    IF t = <<>> THEN FALSE
    ELSE IF s = <<>> THEN TRUE
    ELSE IF Ord(Head(s)) # Ord(Head(t)) THEN Ord(Head(s)) < Ord(Head(t))
    ELSE StrLess(Tail(s), Tail(t))

\* sub in s
Contains(s, sub) ==
    \E i \in 1..(Len(s) - Len(sub) + 1) : SubSeq(s, i, i + Len(sub) - 1) = sub

\* s.endswith(sub)
EndsWith(s, sub) ==
    /\ Len(s) >= Len(sub)
    /\ SubSeq(s, Len(s) - Len(sub) + 1, Len(s)) = sub

\* the set of characters of a string
CharsOf(s) == {s[i] : i \in 1..Len(s)}

\* s.rstrip(chars): removes every trailing character that is in the SET of
\* characters of chars.
RECURSIVE RStrip(_, _)
RStrip(s, chars) ==
    IF s = <<>> \/ s[Len(s)] \notin CharsOf(chars) THEN s
    ELSE RStrip(SubSeq(s, 1, Len(s) - 1), chars)

\* list.sort() on strings (insertion into the sorted tail).
RECURSIVE InsertSorted(_, _)
InsertSorted(x, sorted) ==
    IF sorted = <<>> THEN <<x>>
    ELSE IF StrLess(Head(sorted), x) THEN <<Head(sorted)>> \o InsertSorted(x, Tail(sorted))
    ELSE <<x>> \o sorted

RECURSIVE SortStrings(_)
SortStrings(seq) ==
    IF seq = <<>> THEN <<>> ELSE InsertSorted(Head(seq), SortStrings(Tail(seq)))

\* every ordering of a finite set, as sequences without repetition
Listings(S) ==
    {q \in [1..Cardinality(S) -> S] : \A i, j \in 1..Cardinality(S) : q[i] = q[j] => i = j}

Range(q) == {q[i] : i \in 1..Len(q)}

(***************************************************************************)
(* File names                                                              *)
(***************************************************************************)
PRM == <<".", "p", "r", "m">>
CNT == <<".", "c", "n", "t">>
SNH == <<".", "s", "n", "h">>
ErrorsTxt == <<"e", "r", "r", "o", "r", "s", ".", "t", "x", "t">>

\* os.path.exists(os.path.join(dir, fn)) for a directory held as a function
Exists(dir, fn) == fn \in DOMAIN dir

\* the directory with file fn (over)written with content
WriteFile(dir, fn, content) ==
    [f \in (DOMAIN dir) \cup {fn} |-> IF f = fn THEN content ELSE dir[f]]

\* the directory without file fn
RemoveFile(dir, fn) == [f \in (DOMAIN dir) \ {fn} |-> dir[f]]

EmptyDir == [f \in {} |-> <<>>]

(***************************************************************************)
(* State                                                                   *)
(***************************************************************************)
VARIABLES
    dirs,         \* the configured directories that exist
    requests,     \* requests directory: file name -> content
    samples,      \* samples directory: file name -> content
    responses,    \* responses directory: file name -> content
    errors,       \* errors directory: file name -> content
    backend,      \* the server under test: URI -> response
    linesep,      \* os.linesep of the platform the tool runs on
    pc,           \* position of the caller / of run()
    names,        \* run(): the list returned by _get_names()
    idx,          \* run(): index into names of the case being processed
    cur,          \* run(): <<>> or <<(res_status, res_headers, res_content)>>
    hdrOk,        \* <<>> or <<result of the last _check_sample_headers call>>
    console,      \* standard output of the current run
    prevConsole,  \* standard output of the run before it
    runs,         \* number of run() calls started
    samples0,     \* the samples directory when the current run started
    errors0       \* the errors directory when the current run started

vars == <<dirs, requests, samples, responses, errors, backend, linesep, pc, names, idx,
          cur, hdrOk, console, prevConsole, runs, samples0, errors0>>

(***************************************************************************)
(* Case catalog: Test._get_names                                           *)
(***************************************************************************)
\* [file.rstrip(".prm") for file in files if ".prm" in file] over the sorted
\* listing; listing is what os.listdir returned, in its native order.
RECURSIVE StripEach(_)
StripEach(files) ==
    IF files = <<>> THEN <<>>
    ELSE <<RStrip(Head(files), PRM)>> \o StripEach(Tail(files))

HasPrm(file) == Contains(file, PRM)

GetNames(listing) ==
    LET files == SortStrings(listing)
    IN  StripEach(SelectSeq(files, HasPrm))

(***************************************************************************)
(* Text and JSON files: Test._save_to_file, Test._read_from_file           *)
(***************************************************************************)
\* What open(fn, "w" or "a", encoding=...).write(data) puts into the file:
\* text mode with the default newline=None writes every "\n" as os.linesep.
RECURSIVE WriteText(_, _)
WriteText(data, sep) ==
    IF data = <<>> THEN <<>>
    ELSE IF Head(data) = LF THEN sep \o WriteText(Tail(data), sep)
    ELSE <<Head(data)>> \o WriteText(Tail(data), sep)

\* What open(fn, encoding=...).read() returns for the file's content: text
\* mode with the default newline=None reads "\r\n" and "\r" as "\n".
RECURSIVE ReadText(_)
ReadText(content) ==
    IF content = <<>> THEN <<>>
    ELSE IF Head(content) = CR
         THEN IF Len(content) >= 2 /\ content[2] = LF
              THEN <<LF>> \o ReadText(Tail(Tail(content)))
              ELSE <<LF>> \o ReadText(Tail(content))
    ELSE <<Head(content)>> \o ReadText(Tail(content))

\* A JSON file is held as [ok, obj]: ok says whether its text parses, obj is
\* the object it parses to (a function from key to value).
JsonDumps(obj) == [ok |-> TRUE, obj |-> obj]

\* json.loads: <<obj>>, or <<>> when it raises
JsonLoads(content) == IF content.ok THEN <<content.obj>> ELSE <<>>

\* dict.get(key): <<value>>, or <<>> for None
JGet(obj, key) == IF key \in DOMAIN obj THEN <<obj[key]>> ELSE <<>>

\* res.content.decode(encoding): <<text>>, or <<>> when it raises
Decode(content) == IF content.valid THEN <<content.text>> ELSE <<>>

(***************************************************************************)
(* Test._get_request_content, Test._parse_param                            *)
(***************************************************************************)
GetRequestContent(requestsDir, name) ==
    LET fn == name \o CNT
    IN  IF ~Exists(requestsDir, fn) THEN <<>> ELSE ReadText(requestsDir[fn])

\* Mutant: a missing "URI" is replaced by a default instead of raising.
ParseParamLenient(requestsDir, fn) ==
    LET file == fn \o PRM
    IN  IF ~Exists(requestsDir, file) THEN <<>>
        ELSE LET j == JsonLoads(requestsDir[file])
             IN  IF j = <<>> THEN <<>>
                 ELSE IF "Method" \notin DOMAIN j[1] THEN <<>>
                 ELSE <<[method |-> j[1]["Method"],
                         uri |-> IF "URI" \in DOMAIN j[1] THEN j[1]["URI"] ELSE <<"/">> \o fn,
                         headers |-> JGet(j[1], "Headers")]>>

\* <<(Method, URI, Headers)>>, or <<>> when an exception is raised: the file
\* is missing, is not JSON, or lacks "Method" or "URI".
ParseParam(requestsDir, fn) ==
    LET file == fn \o PRM
    IN  IF ~Exists(requestsDir, file) THEN <<>>
        ELSE LET j == JsonLoads(requestsDir[file])
             IN  IF j = <<>> THEN <<>>
                 ELSE IF "Method" \notin DOMAIN j[1] \/ "URI" \notin DOMAIN j[1] THEN <<>>
                 ELSE <<[method |-> j[1]["Method"], uri |-> j[1]["URI"],
                         headers |-> JGet(j[1], "Headers")]>>

(***************************************************************************)
(* Test._send_request                                                      *)
(***************************************************************************)
\* Mutant: the status+headers record is not written.
SendRequestWithoutRecord(responsesDir, server, sep, uri, name) ==
    IF uri \notin DOMAIN server
    THEN [raised |-> TRUE, responses |-> responsesDir, result |-> <<>>]
    ELSE LET res == server[uri]
             res_content == Decode(res.content)
         IN  IF res_content = <<>>
             THEN [raised |-> TRUE, responses |-> responsesDir, result |-> <<>>]
             ELSE [raised |-> FALSE,
                   responses |-> WriteFile(responsesDir, name \o CNT,
                                           WriteText(res_content[1], sep)),
                   result |-> <<[status |-> res.status, headers |-> res.headers,
                                 content |-> res_content[1]]>>]

\* Mutant: the body is written in mode "a", after what the file holds.
SendRequestAppends(responsesDir, server, sep, uri, name) ==
    IF uri \notin DOMAIN server
    THEN [raised |-> TRUE, responses |-> responsesDir, result |-> <<>>]
    ELSE LET res == server[uri]
             res_content == Decode(res.content)
             old == IF Exists(responsesDir, name \o CNT) THEN responsesDir[name \o CNT]
                    ELSE <<>>
         IN  IF res_content = <<>>
             THEN [raised |-> TRUE, responses |-> responsesDir, result |-> <<>>]
             ELSE LET r1 == WriteFile(responsesDir, name \o CNT,
                                      old \o WriteText(res_content[1], sep))
                      r2 == WriteFile(r1, name \o SNH,
                                      JsonDumps([Status |-> res.status,
                                                 Headers |-> res.headers]))
                  IN  [raised |-> FALSE, responses |-> r2,
                       result |-> <<[status |-> res.status, headers |-> res.headers,
                                     content |-> res_content[1]]>>]

\* Mutant: the body file is opened for writing before the body is decoded,
\* so a decode failure leaves it empty.
SendRequestOpensFileFirst(responsesDir, server, sep, uri, name) ==
    IF uri \notin DOMAIN server
    THEN [raised |-> TRUE, responses |-> responsesDir, result |-> <<>>]
    ELSE LET res == server[uri]
             res_content == Decode(res.content)
         IN  IF res_content = <<>>
             THEN [raised |-> TRUE,
                   responses |-> WriteFile(responsesDir, name \o CNT, <<>>),
                   result |-> <<>>]
             ELSE LET r1 == WriteFile(responsesDir, name \o CNT,
                                      WriteText(res_content[1], sep))
                      r2 == WriteFile(r1, name \o SNH,
                                      JsonDumps([Status |-> res.status,
                                                 Headers |-> res.headers]))
                  IN  [raised |-> FALSE, responses |-> r2,
                       result |-> <<[status |-> res.status, headers |-> res.headers,
                                     content |-> res_content[1]]>>]

\* [raised, responses, result]: the responses directory afterwards and the
\* returned (status, headers, content); raised when the request fails or the
\* body does not decode, in which case nothing has been written.
SendRequest(responsesDir, server, sep, uri, name) ==
    IF uri \notin DOMAIN server
    THEN [raised |-> TRUE, responses |-> responsesDir, result |-> <<>>]
    ELSE LET res == server[uri]
             res_content == Decode(res.content)
         IN  IF res_content = <<>>
             THEN [raised |-> TRUE, responses |-> responsesDir, result |-> <<>>]
             ELSE LET r1 == WriteFile(responsesDir, name \o CNT,
                                      WriteText(res_content[1], sep))
                      r2 == WriteFile(r1, name \o SNH,
                                      JsonDumps([Status |-> res.status,
                                                 Headers |-> res.headers]))
                  IN  [raised |-> FALSE, responses |-> r2,
                       result |-> <<[status |-> res.status, headers |-> res.headers,
                                     content |-> res_content[1]]>>]

(***************************************************************************)
(* Test._check_sample_contents                                             *)
(***************************************************************************)
\* Mutant: the first run returns True without writing the sample.
CheckSampleContentsNoWrite(samplesDir, responsesDir, sep, name, res) ==
    LET sn == name \o CNT
        rn == name \o CNT
    IN  IF ~Exists(samplesDir, sn)
        THEN [ok |-> TRUE, samples |-> samplesDir]
        ELSE [ok |-> ReadText(samplesDir[sn]) = ReadText(responsesDir[rn]),
              samples |-> samplesDir]

\* Mutant: the sample is compared with the response held in memory instead
\* of the response file read back.
CheckSampleContentsInMemory(samplesDir, responsesDir, sep, name, res) ==
    LET sn == name \o CNT
    IN  IF ~Exists(samplesDir, sn)
        THEN [ok |-> TRUE, samples |-> WriteFile(samplesDir, sn, WriteText(res, sep))]
        ELSE [ok |-> ReadText(samplesDir[sn]) = res, samples |-> samplesDir]

\* Mutant: the first run writes the sample and returns False.
CheckSampleContentsFirstRunFails(samplesDir, responsesDir, sep, name, res) ==
    LET sn == name \o CNT
        rn == name \o CNT
    IN  IF ~Exists(samplesDir, sn)
        THEN [ok |-> FALSE, samples |-> WriteFile(samplesDir, sn, WriteText(res, sep))]
        ELSE [ok |-> ReadText(samplesDir[sn]) = ReadText(responsesDir[rn]),
              samples |-> samplesDir]

\* [ok, samples]: the returned value and the samples directory afterwards.
CheckSampleContents(samplesDir, responsesDir, sep, name, res) ==
    LET sn == name \o CNT
        rn == name \o CNT
    IN  IF ~Exists(samplesDir, sn)
        THEN [ok |-> TRUE, samples |-> WriteFile(samplesDir, sn, WriteText(res, sep))]
        ELSE [ok |-> ReadText(samplesDir[sn]) = ReadText(responsesDir[rn]),
              samples |-> samplesDir]

(***************************************************************************)
(* Test._check_sample_headers                                              *)
(***************************************************************************)
\* str.lower() on the header names in use
Lower(k) ==
    CASE k = "ETag" -> "etag"
      [] k = "Via" -> "via"
      [] OTHER -> k

\* headers.get(header) on the response's case-insensitive dictionary:
\* <<value>>, or <<>> for None
HGet(headers, header) ==
    LET ks == {k \in DOMAIN headers : Lower(k) = Lower(header)}
    IN  IF ks = {} THEN <<>> ELSE <<headers[CHOOSE k \in ks : TRUE]>>

\* the loop over sample_headers.items(): FALSE at the first stored header
\* whose value the response does not have
RECURSIVE HeadersLoop(_, _, _)
HeadersLoop(todo, sample_headers, headers) ==
    IF todo = {} THEN TRUE
    ELSE LET header == CHOOSE h \in todo : TRUE
         IN  IF HGet(headers, header) # <<sample_headers[header]>> THEN FALSE
             ELSE HeadersLoop(todo \ {header}, sample_headers, headers)

\* Mutant: the stored headers must equal the response headers, not be a
\* part of them.
CheckSampleHeadersExact(samplesDir, name, status, headers) ==
    LET sn == name \o SNH
    IN  IF ~Exists(samplesDir, sn) THEN <<TRUE>>
        ELSE LET j == JsonLoads(samplesDir[sn])
             IN  IF j = <<>> THEN <<>>
                 ELSE LET sample_status == JGet(j[1], "Status")
                          sample_headers == JGet(j[1], "Headers")
                      IN  IF sample_status # <<>> /\ sample_status[1] # status
                          THEN <<FALSE>>
                          ELSE IF sample_headers = <<>> THEN <<TRUE>>
                          ELSE <<sample_headers[1] = headers>>

\* <<returned value>>, or <<>> when json.loads raises
CheckSampleHeaders(samplesDir, name, status, headers) ==
    LET sn == name \o SNH
    IN  IF ~Exists(samplesDir, sn) THEN <<TRUE>>
        ELSE LET j == JsonLoads(samplesDir[sn])
             IN  IF j = <<>> THEN <<>>
                 ELSE LET sample_status == JGet(j[1], "Status")
                          sample_headers == JGet(j[1], "Headers")
                      IN  IF sample_status # <<>> /\ sample_status[1] # status
                          THEN <<FALSE>>
                          ELSE IF sample_headers = <<>> THEN <<TRUE>>
                          ELSE <<HeadersLoop(DOMAIN sample_headers[1],
                                             sample_headers[1], headers)>>

(***************************************************************************)
(* Test._write_err, Test._remove_errors                                    *)
(***************************************************************************)
OkLine(name) == <<"Test #", name, " - OK">>
FailLine(name) == <<"Test #", name, " - FAIL">>

\* errors.txt opened in mode "a": the line is added after what is there
WriteErr(errorsDir, name) ==
    LET old == IF Exists(errorsDir, ErrorsTxt) THEN errorsDir[ErrorsTxt] ELSE <<>>
    IN  WriteFile(errorsDir, ErrorsTxt, old \o <<FailLine(name)>>)

\* What os.remove can do: remove the file, raise FileNotFoundError, or raise
\* another OSError (permission denied, read-only file system, ...).
RemoveOutcomes(errorsDir) ==
    IF Exists(errorsDir, ErrorsTxt) THEN {"removed", "os_error"} ELSE {"not_found"}

\* try: os.remove(...) except OSError: pass
\* [raised, errors]: every OSError is swallowed, so it never raises.
RemoveErrors(errorsDir, outcome) ==
    [raised |-> FALSE,
     errors |-> IF outcome = "removed" THEN RemoveFile(errorsDir, ErrorsTxt)
                ELSE errorsDir]

(***************************************************************************)
(* The environment a run starts in                                         *)
(***************************************************************************)
MaxRuns == 2

\* the four directories Test(...) is configured with
AllDirs == {"responses", "samples", "requests", "errors"}

NameA == <<"a">>
NameB == <<"b">>
Cases == {NameA, NameB}

NoHeaders == [k \in {} |-> ""]
Text(t) == [valid |-> TRUE, text |-> t]
Undecodable == [valid |-> FALSE, text |-> <<>>]

BodyX == <<"x", LF>>
BodyXcrlf == <<"x", CR, LF>>
BodyY == <<"y">>

\* what the server may answer to a request
RunResponses ==
    { [status |-> 200, headers |-> ("ETag" :> "u"), content |-> Text(BodyX)],
      [status |-> 200, headers |-> ("etag" :> "u") @@ ("Via" :> "v"),
       content |-> Text(BodyXcrlf)],
      [status |-> 404, headers |-> NoHeaders, content |-> Text(BodyY)],
      [status |-> 200, headers |-> NoHeaders, content |-> Undecodable] }

Uri(name) == <<"/">> \o name

\* request parameter files
PrmOk(name) == JsonDumps([Method |-> "GET", URI |-> Uri(name)])
PrmWithHeaders(name) ==
    JsonDumps([Method |-> "POST", URI |-> Uri(name), Headers |-> ("Accept" :> "u")])
PrmNoUri == JsonDumps([Method |-> "GET"])
PrmMalformed == [ok |-> FALSE, obj |-> NoHeaders]

File(fn, content) == fn :> content

\* the requests directories the runs are tried on
RunRequestDirs ==
    { EmptyDir,
      File(NameA \o PRM, PrmOk(NameA)),
      File(NameB \o PRM, PrmWithHeaders(NameB)) @@ File(NameA \o PRM, PrmOk(NameA))
          @@ File(NameA \o CNT, BodyY),
      File(NameA \o PRM, PrmOk(NameA)) @@ File(NameB \o PRM, PrmOk(NameB))
          @@ File(<<"c", ".", "t", "x", "t">>, BodyX),
      File(NameA \o PRM, PrmOk(NameA)) @@ File(<<"a", "p">> \o PRM, PrmOk(NameB)),
      File(NameA \o PRM, PrmOk(NameA)) @@ File(NameB \o PRM \o <<".", "b", "a", "k">>, PrmOk(NameB)),
      File(NameA \o PRM, PrmMalformed) @@ File(NameB \o PRM, PrmOk(NameB)),
      File(NameA \o PRM, PrmOk(NameA)) @@ File(NameB \o PRM, PrmNoUri) }

\* the body samples and status+headers samples a case may have
RunBodySamples == {BodyX, BodyXcrlf, BodyY}
RunHeaderSamples ==
    { JsonDumps([Status |-> 200]),
      JsonDumps([Headers |-> ("etag" :> "u") @@ ("Via" :> "v")]) }

\* the samples files of one case: none, one or both of name.cnt, name.snh
CaseSamples(name) ==
    LET cnts == {EmptyDir} \cup {File(name \o CNT, b) : b \in RunBodySamples}
        snhs == {EmptyDir} \cup {File(name \o SNH, h) : h \in RunHeaderSamples}
    IN  {c @@ h : c \in cnts, h \in snhs}

RunSampleDirs == {sa @@ sb : sa \in CaseSamples(NameA), sb \in CaseSamples(NameB)}

RunBackends == [{Uri(n) : n \in Cases} -> RunResponses]

LineSeps == {<<LF>>, <<CR, LF>>}

Init ==
    /\ dirs = AllDirs
    /\ requests \in RunRequestDirs
    /\ samples \in RunSampleDirs
    /\ responses = EmptyDir
    /\ errors = EmptyDir
    /\ backend \in RunBackends
    /\ linesep \in LineSeps
    /\ pc = "idle"
    /\ names = <<>>
    /\ idx = 0
    /\ cur = <<>>
    /\ hdrOk = <<>>
    /\ console = <<>>
    /\ prevConsole = <<>>
    /\ runs = 0
    /\ samples0 = samples
    /\ errors0 = errors

(***************************************************************************)
(* Test.run                                                                *)
(***************************************************************************)
\* run() is called; it removes the old errors and lists the cases.
RunBegin ==
    /\ pc \in {"idle", "done", "aborted"}
    /\ runs < MaxRuns
    /\ \E outcome \in RemoveOutcomes(errors), listing \in Listings(DOMAIN requests) :
          LET rm == RemoveErrors(errors, outcome)
              \* os.listdir raises when the requests directory is missing
              raised == rm.raised \/ "requests" \notin dirs
          IN  /\ errors' = rm.errors
              /\ pc' = IF raised THEN "aborted" ELSE "loop"
              /\ names' = IF raised THEN <<>> ELSE GetNames(listing)
    /\ idx' = 1
    /\ cur' = <<>>
    /\ hdrOk' = <<>>
    /\ console' = <<>>
    /\ prevConsole' = console
    /\ runs' = runs + 1
    /\ samples0' = samples
    /\ errors0' = errors
    /\ UNCHANGED <<dirs, requests, samples, responses, backend, linesep>>

\* The first half of one iteration: _parse_param, _get_request_content and
\* _send_request.  An exception leaves run().
CaseSend ==
    /\ pc = "loop"
    /\ idx <= Len(names)
    /\ LET name == names[idx]
           prm == ParseParam(requests, name)
       IN  IF prm = <<>>
           THEN /\ pc' = "aborted"
                /\ UNCHANGED <<responses, cur>>
           ELSE LET req_content == GetRequestContent(requests, name)
                    sent == SendRequest(responses, backend, linesep, prm[1].uri, name)
                IN  /\ responses' = sent.responses
                    /\ cur' = sent.result
                    /\ pc' = IF sent.raised THEN "aborted" ELSE "check"
    /\ hdrOk' = <<>>
    /\ UNCHANGED <<dirs, requests, samples, errors, backend, linesep, names, idx, console,
                   prevConsole, runs, samples0, errors0>>

\* Mutant: no "continue" after a failed headers check, so the contents check
\* is made as well.
CheckCaseNoShortCircuit(samplesDir, responsesDir, sep, name, res) ==
    LET h == CheckSampleHeaders(samplesDir, name, res.status, res.headers)
    IN  IF h = <<>>
        THEN [raised |-> TRUE, ok |-> FALSE, hdr |-> h, samples |-> samplesDir]
        ELSE LET c == CheckSampleContents(samplesDir, responsesDir, sep, name, res.content)
             IN  [raised |-> FALSE, ok |-> h[1] /\ c.ok, hdr |-> h, samples |-> c.samples]

\* Mutant: a failed headers check is raised as an exception.
CheckCaseRaisesOnFailure(samplesDir, responsesDir, sep, name, res) ==
    LET h == CheckSampleHeaders(samplesDir, name, res.status, res.headers)
    IN  IF h = <<>> \/ ~h[1]
        THEN [raised |-> TRUE, ok |-> FALSE, hdr |-> h, samples |-> samplesDir]
        ELSE LET c == CheckSampleContents(samplesDir, responsesDir, sep, name, res.content)
             IN  [raised |-> FALSE, ok |-> c.ok, hdr |-> h, samples |-> c.samples]

\* Mutant: a missing status+headers sample is bootstrapped from the response,
\* the way a missing body sample is.
CheckCaseBootstrapsHeaders(samplesDir, responsesDir, sep, name, res) ==
    LET h == CheckSampleHeaders(samplesDir, name, res.status, res.headers)
        withSnh == IF Exists(samplesDir, name \o SNH) THEN samplesDir
                   ELSE WriteFile(samplesDir, name \o SNH,
                                  JsonDumps([Status |-> res.status, Headers |-> res.headers]))
    IN  IF h = <<>>
        THEN [raised |-> TRUE, ok |-> FALSE, hdr |-> h, samples |-> samplesDir]
        ELSE IF ~h[1]
        THEN [raised |-> FALSE, ok |-> FALSE, hdr |-> h, samples |-> samplesDir]
        ELSE LET c == CheckSampleContents(withSnh, responsesDir, sep, name, res.content)
             IN  [raised |-> FALSE, ok |-> c.ok, hdr |-> h, samples |-> c.samples]

\* The two checks of one iteration, in the order run() makes them:
\* [raised, ok, hdr, samples].  The contents check is made only when the
\* headers check returned True.
CheckCase(samplesDir, responsesDir, sep, name, res) ==
    LET h == CheckSampleHeaders(samplesDir, name, res.status, res.headers)
    IN  IF h = <<>>
        THEN [raised |-> TRUE, ok |-> FALSE, hdr |-> h, samples |-> samplesDir]
        ELSE IF ~h[1]
        THEN [raised |-> FALSE, ok |-> FALSE, hdr |-> h, samples |-> samplesDir]
        ELSE LET c == CheckSampleContents(samplesDir, responsesDir, sep, name, res.content)
             IN  [raised |-> FALSE, ok |-> c.ok, hdr |-> h, samples |-> c.samples]

\* The second half of one iteration: the checks, then _write_err or the OK
\* line, then the next case.
CaseCheck ==
    /\ pc = "check"
    /\ LET name == names[idx]
           r == CheckCase(samples, responses, linesep, name, cur[1])
       IN  IF r.raised
           THEN /\ pc' = "aborted"
                /\ UNCHANGED <<samples, errors, console, idx, hdrOk>>
           ELSE /\ pc' = "loop"
                /\ idx' = idx + 1
                /\ hdrOk' = r.hdr
                /\ samples' = r.samples
                /\ IF r.ok
                   THEN /\ console' = Append(console, OkLine(name))
                        /\ errors' = errors
                   ELSE /\ console' = Append(console, FailLine(name))
                        /\ errors' = WriteErr(errors, name)
    /\ UNCHANGED <<dirs, requests, responses, backend, linesep, names, cur, prevConsole,
                   runs, samples0, errors0>>

\* The loop is over: run() returns.
RunEnd ==
    /\ pc = "loop"
    /\ idx > Len(names)
    /\ pc' = "done"
    /\ UNCHANGED <<dirs, requests, samples, responses, errors, backend, linesep, names, idx,
                   cur, hdrOk, console, prevConsole, runs, samples0, errors0>>

Next == RunBegin \/ CaseSend \/ CaseCheck \/ RunEnd

Spec == Init /\ [][Next]_vars

(***************************************************************************)
(* Test._get_names on its own, over more directories                       *)
(***************************************************************************)
MaxFiles == 3

NameFiles ==
    { <<"a">> \o PRM,
      <<"b">> \o PRM,
      <<"c">> \o PRM,
      <<"a", "-", "b">> \o PRM,
      <<"a", "p">> \o PRM,
      <<"b">> \o PRM \o <<".", "b", "a", "k">>,
      <<"c", ".", "t", "x", "t">> }

NameDirs ==
    {[f \in S |-> PrmOk(NameA)] : S \in {T \in SUBSET NameFiles : Cardinality(T) <= MaxFiles}}

InitNames ==
    /\ dirs = AllDirs
    /\ requests \in NameDirs
    /\ samples = EmptyDir
    /\ responses = EmptyDir
    /\ errors = EmptyDir
    /\ backend = [u \in {} |-> 0]
    /\ linesep = <<LF>>
    /\ pc = "idle"
    /\ names = <<>>
    /\ idx = 0
    /\ cur = <<>>
    /\ hdrOk = <<>>
    /\ console = <<>>
    /\ prevConsole = <<>>
    /\ runs = 0
    /\ samples0 = samples
    /\ errors0 = errors

\* one call of _get_names(), os.listdir answering in any order
GetNamesCall ==
    /\ pc = "idle"
    /\ \E listing \in Listings(DOMAIN requests) : names' = GetNames(listing)
    /\ pc' = "listed"
    /\ UNCHANGED <<dirs, requests, samples, responses, errors, backend, linesep, idx, cur,
                   hdrOk, console, prevConsole, runs, samples0, errors0>>

SpecNames == InitNames /\ [][GetNamesCall]_vars

(***************************************************************************)
(* Test._check_sample_headers on its own, over more samples and responses  *)
(***************************************************************************)
HeaderKeys == {"ETag", "etag", "Via"}
HeaderValues == {"u", "v"}
Statuses == {200, 404}

\* every mapping from some of the header names to values
HeaderMaps == UNION {[S -> HeaderValues] : S \in SUBSET HeaderKeys}

\* the headers a response can carry: names are unique up to case
ResponseHeaderMaps ==
    {m \in HeaderMaps : \A k1, k2 \in DOMAIN m : Lower(k1) = Lower(k2) => k1 = k2}

\* the JSON objects of a status+headers sample: "Status" and "Headers" are
\* each there or not
SampleObjects ==
    LET statusParts == {NoHeaders} \cup {"Status" :> st : st \in Statuses}
        headerParts == {NoHeaders} \cup {"Headers" :> m : m \in HeaderMaps}
    IN  {sp @@ hp : sp \in statusParts, hp \in headerParts}

HeaderSampleDirs ==
    {EmptyDir, File(NameA \o SNH, PrmMalformed)}
        \cup {File(NameA \o SNH, JsonDumps(o)) : o \in SampleObjects}

InitHeaders ==
    /\ dirs = AllDirs
    /\ requests = File(NameA \o PRM, PrmOk(NameA))
    /\ samples \in HeaderSampleDirs
    /\ responses = EmptyDir
    /\ errors = EmptyDir
    /\ backend = [u \in {} |-> 0]
    /\ linesep = <<LF>>
    /\ pc = "idle"
    /\ names = <<NameA>>
    /\ idx = 1
    /\ cur \in {<<[status |-> st, headers |-> h, content |-> BodyX]>> :
                   st \in Statuses, h \in ResponseHeaderMaps}
    /\ hdrOk = <<>>
    /\ console = <<>>
    /\ prevConsole = <<>>
    /\ runs = 0
    /\ samples0 = samples
    /\ errors0 = errors

\* one call of _check_sample_headers(name, status, headers)
CheckHeadersCall ==
    /\ pc = "idle"
    /\ hdrOk' = CheckSampleHeaders(samples, names[idx], cur[1].status, cur[1].headers)
    /\ pc' = IF hdrOk' = <<>> THEN "raised" ELSE "checked"
    /\ UNCHANGED <<dirs, requests, samples, responses, errors, backend, linesep, names, idx,
                   cur, console, prevConsole, runs, samples0, errors0>>

SpecHeaders == InitHeaders /\ [][CheckHeadersCall]_vars

(***************************************************************************)
(* The catalog: C6, C7 (checked under SpecNames)                           *)
(***************************************************************************)
\* the spec files of the requests directory: the entries ending in ".prm"
SpecFiles == {f \in DOMAIN requests : EndsWith(f, PRM)}

\* C6: the list _get_names returns is in lexicographically ascending order
\* of the names, whatever order os.listdir answered in.
C6_NamesAscending ==
    pc = "listed" =>
        /\ \A i, j \in 1..Len(names) : i < j => ~StrLess(names[j], names[i])
        /\ \A listing \in Listings(DOMAIN requests) : GetNames(listing) = names

\* C7: the names returned are exactly the spec files of the requests
\* directory with the suffix taken off: every name n has its file n + ".prm",
\* every spec file gives its name exactly once, and nothing else gives a name.
C7_NamesAreSpecFiles ==
    pc = "listed" =>
        /\ \A i \in 1..Len(names) : names[i] \o PRM \in SpecFiles
        /\ \A f \in SpecFiles :
              Cardinality({i \in 1..Len(names) : names[i] \o PRM = f}) = 1
        /\ \A i, j \in 1..Len(names) : names[i] = names[j] => i = j
        /\ Len(names) = Cardinality(SpecFiles)

(***************************************************************************)
(* The headers check: C5 (checked under SpecHeaders)                       *)
(***************************************************************************)
\* the response has header k, under some spelling, with value v
ResponseHas(headers, k, v) ==
    \E k2 \in DOMAIN headers : Lower(k2) = Lower(k) /\ headers[k2] = v

\* the response headers that a sample's stored keys name
Named(headers, stored) ==
    [k \in {k2 \in DOMAIN headers : \E s \in DOMAIN stored : Lower(s) = Lower(k2)}
        |-> headers[k]]

\* C5: when the status+headers sample exists, the check returns true exactly
\* when (Status is absent or equals the actual status) and (Headers is absent
\* or every stored header is in the actual headers with an equal value);
\* actual headers the sample does not name never change the result.
C5_HeaderCheckIsSubsetMatch ==
    LET sn == NameA \o SNH
    IN  (pc = "checked" /\ Exists(samples, sn)) =>
            LET obj == samples[sn].obj
                status == cur[1].status
                headers == cur[1].headers
                statusOk == "Status" \notin DOMAIN obj \/ obj["Status"] = status
                headersOk == "Headers" \notin DOMAIN obj
                             \/ \A k \in DOMAIN obj["Headers"] :
                                   ResponseHas(headers, k, obj["Headers"][k])
            IN  /\ hdrOk = <<statusOk /\ headersOk>>
                /\ "Headers" \in DOMAIN obj =>
                      \A other \in ResponseHeaderMaps :
                          Named(other, obj["Headers"]) = Named(headers, obj["Headers"])
                              => CheckSampleHeaders(samples, NameA, status, other) = hdrOk

\* C5 witness: a sample whose Headers are a strict subset of the actual
\* headers has been checked and passed.
C5_Witness ==
    LET sn == NameA \o SNH
    IN  /\ pc = "checked"
        /\ Exists(samples, sn)
        /\ "Headers" \in DOMAIN samples[sn].obj
        /\ DOMAIN samples[sn].obj["Headers"] = {"etag"}
        /\ DOMAIN cur[1].headers = {"ETag", "Via"}
        /\ hdrOk = <<TRUE>>

(***************************************************************************)
(* The run: C1-C4, C8-C10 (checked under Spec)                             *)
(***************************************************************************)
\* the step of run() that makes the two checks of case names[idx] and
\* reports it
ChecksDone == pc = "check" /\ pc' = "loop"

\* the case the last completed CaseCheck step was about
LastName == names[idx - 1]
AfterChecks == pc = "loop" /\ idx > 1

ReportedOk(name) == console' = Append(console, OkLine(name))
ReportedFail(name) == console' = Append(console, FailLine(name))

ErrorLog(errorsDir) == IF Exists(errorsDir, ErrorsTxt) THEN errorsDir[ErrorsTxt] ELSE <<>>

IsFailLine(line) == line[3] = " - FAIL"
FailLines(out) == SelectSeq(out, IsFailLine)

\* C1 as stated: every case without a body sample when run() starts gets, in
\* one run, a body sample equal to the captured body, and is reported OK with
\* no line in the error log.
C1_Original ==
    pc = "done" =>
        \A i \in 1..Len(names) :
            LET sn == names[i] \o CNT
            IN  ~Exists(samples0, sn) =>
                    /\ Exists(samples, sn)
                    /\ samples[sn] = responses[sn]
                    /\ OkLine(names[i]) \in Range(console)
                    /\ FailLine(names[i]) \notin Range(ErrorLog(errors))

\* C1 (amended): for every case without a body sample when run() starts whose
\* headers check passes, the run writes a body sample equal to the captured
\* body (as stored in the responses directory) and reports the case OK,
\* adding no line to the error log.
C1_BootstrapWhenHeadersPass ==
    [][ (ChecksDone /\ ~Exists(samples0, names[idx] \o CNT) /\ hdrOk' = <<TRUE>>) =>
            LET sn == names[idx] \o CNT
            IN  /\ Exists(samples', sn)
                /\ samples'[sn] = responses'[sn]
                /\ samples'[sn] = WriteText(cur[1].content, linesep)
                /\ ReportedOk(names[idx])
                /\ errors' = errors ]_vars

\* C1 witness: a case that had no body sample at the start of the run has
\* just been bootstrapped and reported OK.
C1_Witness ==
    /\ AfterChecks
    /\ ~Exists(samples0, LastName \o CNT)
    /\ Exists(samples, LastName \o CNT)
    /\ samples[LastName \o CNT] = responses[LastName \o CNT]
    /\ hdrOk = <<TRUE>>
    /\ console[Len(console)] = OkLine(LastName)
    /\ FailLines(console) = <<>>
    /\ ~Exists(errors, ErrorsTxt)

\* C2: a case whose stored body sample differs from the captured body is
\* reported FAIL, gets a line in the error log, and keeps its sample.
C2_DifferentSampleFails ==
    [][ (/\ ChecksDone
         /\ Exists(samples, names[idx] \o CNT)
         /\ samples[names[idx] \o CNT] # cur[1].content
         /\ samples[names[idx] \o CNT] # responses[names[idx] \o CNT]) =>
            /\ ReportedFail(names[idx])
            /\ errors' = WriteErr(errors, names[idx])
            /\ samples' = samples ]_vars

\* C3 as stated: a case whose stored body sample equals the captured body is
\* reported OK and its sample is not written.
C3_Original ==
    [][ (/\ ChecksDone
         /\ Exists(samples, names[idx] \o CNT)
         /\ samples[names[idx] \o CNT] = cur[1].content
         /\ samples[names[idx] \o CNT] = responses[names[idx] \o CNT]) =>
            /\ ReportedOk(names[idx])
            /\ samples' = samples ]_vars

\* C3 (amended): a case whose stored body sample is identical to the body
\* captured in this run, and whose headers check passes, is reported OK and
\* its sample is left as it was.
C3_EqualSamplePassesWhenHeadersPass ==
    [][ (/\ ChecksDone
         /\ Exists(samples, names[idx] \o CNT)
         /\ samples[names[idx] \o CNT] = responses[names[idx] \o CNT]
         /\ hdrOk' = <<TRUE>>) =>
            /\ ReportedOk(names[idx])
            /\ errors' = errors
            /\ samples' = samples ]_vars

\* C3 witness: a case whose sample was there before the run and equals the
\* capture has been checked with a passing headers check and reported OK.
C3_Witness ==
    /\ AfterChecks
    /\ Exists(samples0, LastName \o CNT)
    /\ Exists(samples0, LastName \o SNH)
    /\ samples0[LastName \o CNT] = responses[LastName \o CNT]
    /\ samples = samples0
    /\ hdrOk = <<TRUE>>
    /\ console[Len(console)] = OkLine(LastName)

\* C4: when the status+headers sample of a case stores a Status other than
\* the actual status, the headers check fails, the case is reported FAIL and
\* logged, and the body check is not made: the samples directory is left as
\* it was, so a missing body sample stays missing.
C4_StatusMismatchSkipsBodyCheck ==
    [][ (/\ pc = "check"
         /\ Exists(samples, names[idx] \o SNH)
         /\ "Status" \in DOMAIN samples[names[idx] \o SNH].obj
         /\ samples[names[idx] \o SNH].obj["Status"] # cur[1].status) =>
            /\ pc' = "loop"
            /\ hdrOk' = <<FALSE>>
            /\ ReportedFail(names[idx])
            /\ errors' = WriteErr(errors, names[idx])
            /\ samples' = samples ]_vars

\* C4 witness: a case with a sample Status of 200 answered 404 has been
\* reported FAIL while it has no body sample.
C4_Witness ==
    /\ AfterChecks
    /\ Exists(samples, LastName \o SNH)
    /\ JGet(samples[LastName \o SNH].obj, "Status") = <<200>>
    /\ cur[1].status = 404
    /\ hdrOk = <<FALSE>>
    /\ ~Exists(samples0, LastName \o CNT)
    /\ ~Exists(samples, LastName \o CNT)
    /\ console[Len(console)] = FailLine(LastName)
    /\ FailLine(LastName) \in Range(ErrorLog(errors))

\* C8: after a completed run the error log reflects that run only: it does
\* not exist when no case failed, and otherwise holds exactly the FAIL lines
\* of that run, in the order the cases were run.
C8_ErrorLogReflectsLastRun ==
    pc = "done" =>
        /\ Exists(errors, ErrorsTxt) <=> FailLines(console) # <<>>
        /\ ErrorLog(errors) = FailLines(console)

\* C9: at the start of run() the error log is deleted if present, "not
\* found" counts as success, and any other failure to delete is fatal: then
\* the run aborts and no case is executed.
C9_ResetErrorsOrAbort ==
    [][ runs' = runs + 1 =>
            \/ ~Exists(errors', ErrorsTxt) /\ pc' = "loop"
            \/ pc' = "aborted" /\ names' = <<>> ]_vars

\* C10 as stated: the second of two runs in succession prints what the first
\* printed, and the error log is absent after each of the two runs.
C10_Original ==
    (pc = "done" /\ runs >= 2) =>
        /\ console = prevConsole
        /\ ~Exists(errors0, ErrorsTxt)
        /\ ~Exists(errors, ErrorsTxt)

\* t is the tail of s
IsSuffix(t, s) == Len(t) <= Len(s) /\ SubSeq(s, Len(s) - Len(t) + 1, Len(s)) = t

\* C10 (amended): the second of two runs in succession prints what the first
\* printed; after each of the two runs the error log ends with the FAIL lines
\* of that run, so it is there whenever a case failed.
C10_SameConsoleTwice ==
    (pc \in {"done", "aborted"} /\ runs >= 2) =>
        /\ console = prevConsole
        /\ IsSuffix(FailLines(prevConsole), ErrorLog(errors0))
        /\ IsSuffix(FailLines(console), ErrorLog(errors))
        /\ FailLines(console) # <<>> => Exists(errors0, ErrorsTxt) /\ Exists(errors, ErrorsTxt)

\* C10 witness: a second run of two cases has ended, one case reported OK in
\* both runs, the other reported FAIL in both.
C10_Witness ==
    /\ pc = "done"
    /\ runs = 2
    /\ Len(console) = 2
    /\ console = prevConsole
    /\ Len(FailLines(console)) = 1
    /\ \E n \in Range(names) : OkLine(n) \in Range(console)
    /\ samples = samples0
    /\ ErrorLog(errors) = FailLines(console)

(***************************************************************************)
(* The batch: C11 (checked under Spec)                                     *)
(***************************************************************************)
\* the number of steps run() still has to take
StepsLeft ==
    IF pc = "loop" THEN (Len(names) + 1 - idx) + (Len(names) + 1 - idx) + 1
    ELSE IF pc = "check" THEN (Len(names) + 1 - idx) + (Len(names) + 1 - idx)
    ELSE 0

\* the lines printed so far are the reports of names[1..idx-1], one each
OneLinePerCase ==
    /\ Len(console) = idx - 1
    /\ idx <= Len(names) + 1
    /\ \A i \in 1..Len(console) : console[i] \in {OkLine(names[i]), FailLine(names[i])}

\* C11: a failed check never aborts the batch.  Unless an exception leaves
\* run(), every entry of the catalog is executed once, in catalog order, with
\* exactly one report line (OK or FAIL), an error-log line is appended exactly
\* for the FAIL reports, and run() terminates: inside run() a step is always
\* possible and every step leaves fewer steps to take.
C11_FailuresDoNotAbort ==
    /\ [][ pc = "check" =>
              /\ pc' = "loop"
              /\ idx' = idx + 1
              /\ names' = names
              /\ \/ ReportedOk(names[idx]) /\ errors' = errors
                 \/ ReportedFail(names[idx]) /\ errors' = WriteErr(errors, names[idx]) ]_vars
    /\ [](pc \in {"loop", "check", "done"} => OneLinePerCase)
    /\ [](pc = "done" => Len(console) = Len(names))
    /\ [](pc \in {"loop", "check"} => ENABLED (CaseSend \/ CaseCheck \/ RunEnd))
    /\ [][ (pc \in {"loop", "check"}) => (0 <= StepsLeft' /\ StepsLeft' < StepsLeft) ]_vars

\* C11 witness: a run of two cases has ended with the first case reported
\* FAIL and the second reported OK.
C11_Witness ==
    /\ pc = "done"
    /\ Len(names) = 2
    /\ console = <<FailLine(names[1]), OkLine(names[2])>>
    /\ ErrorLog(errors) = <<FailLine(names[1])>>

(***************************************************************************)
(* Exceptions: C12 (checked under Spec)                                    *)
(***************************************************************************)
\* run() is about to process names[idx]
AtCase == pc = "loop" /\ idx <= Len(names)

\* the parameter file of names[idx] is there and is not JSON
SpecMalformed ==
    LET file == names[idx] \o PRM
    IN  Exists(requests, file) /\ ~requests[file].ok

\* the parameter file of names[idx] is JSON without "Method" or "URI"
SpecKeyMissing ==
    LET file == names[idx] \o PRM
    IN  /\ Exists(requests, file)
        /\ requests[file].ok
        /\ {"Method", "URI"} \ DOMAIN requests[file].obj # {}

\* the server's answer to the request of names[idx] does not decode
ResponseUndecodable ==
    LET file == names[idx] \o PRM
    IN  /\ Exists(requests, file)
        /\ requests[file].ok
        /\ "URI" \in DOMAIN requests[file].obj
        /\ requests[file].obj["URI"] \in DOMAIN backend
        /\ ~backend[requests[file].obj["URI"]].content.valid

\* C12: a fatal error while a case is processed (parameter file not JSON, a
\* required key missing, response not decodable) leaves run(): the case gets
\* neither a console line nor an error-log line, and no later case is
\* executed (nothing happens until run() is called again).
C12_FatalErrorAbortsRun ==
    /\ [][ (AtCase /\ (SpecMalformed \/ SpecKeyMissing \/ ResponseUndecodable)) =>
              /\ pc' = "aborted"
              /\ idx' = idx
              /\ console' = console
              /\ errors' = errors
              /\ samples' = samples ]_vars
    /\ [][ pc = "aborted" => runs' = runs + 1 ]_vars
    /\ [](pc = "aborted" => Len(console) = idx - 1 /\ idx <= Len(names))

\* C12 witness: the run was left at its first case, whose parameter file is
\* not JSON; nothing was printed or logged and the second case was never
\* executed.
C12_Witness ==
    /\ pc = "aborted"
    /\ runs = 1
    /\ Len(names) = 2
    /\ idx = 1
    /\ SpecMalformed
    /\ console = <<>>
    /\ ~Exists(errors, ErrorsTxt)
    /\ ~Exists(responses, names[2] \o CNT)

(***************************************************************************)
(* Test.__init__ on its own: C13 (checked under SpecInit)                  *)
(***************************************************************************)
\* force_dir(directory): [raised, dirs].  os.makedirs is called for a
\* missing directory only, and raises where creating it is denied.
ForceDir(existing, directory, denied) ==
    IF directory \in existing THEN [raised |-> FALSE, dirs |-> existing]
    ELSE IF directory \in denied THEN [raised |-> TRUE, dirs |-> existing]
    ELSE [raised |-> FALSE, dirs |-> existing \cup {directory}]

\* __init__: force_dir for responses_dir, samples_dir and errors_dir, in
\* that order; requests_dir is only stored.
Construct(existing, denied) ==
    LET r1 == ForceDir(existing, "responses", denied)
        r2 == ForceDir(r1.dirs, "samples", denied)
        r3 == ForceDir(r2.dirs, "errors", denied)
    IN  IF r1.raised THEN r1 ELSE IF r2.raised THEN r2 ELSE r3

\* what a directory that exists before construction may hold
DirContents(d) ==
    IF d = "requests" THEN RunRequestDirs
    ELSE IF d = "samples" THEN {EmptyDir, File(NameA \o CNT, BodyX), File(NameA \o SNH, JsonDumps([Status |-> 200]))}
    ELSE IF d = "responses" THEN {EmptyDir, File(NameA \o CNT, BodyY)}
    ELSE {EmptyDir, File(ErrorsTxt, <<FailLine(NameA)>>)}

ContentsIn(d) == IF d \in dirs THEN DirContents(d) ELSE {EmptyDir}

InitNew ==
    /\ dirs \in SUBSET AllDirs
    /\ requests \in ContentsIn("requests")
    /\ samples \in ContentsIn("samples")
    /\ responses \in ContentsIn("responses")
    /\ errors \in ContentsIn("errors")
    /\ backend = [u \in {} |-> 0]
    /\ linesep = <<LF>>
    /\ pc = "new"
    /\ names = <<>>
    /\ idx = 0
    /\ cur = <<>>
    /\ hdrOk = <<>>
    /\ console = <<>>
    /\ prevConsole = <<>>
    /\ runs = 0
    /\ samples0 = samples
    /\ errors0 = errors

\* Test(responses_dir, samples_dir, requests_dir, errors_dir) is called, for
\* the first time or again
ConstructCall ==
    /\ pc \in {"new", "idle"}
    /\ \E denied \in SUBSET AllDirs :
          LET c == Construct(dirs, denied)
          IN  /\ dirs' = c.dirs
              /\ pc' = IF c.raised THEN "init_failed" ELSE "idle"
    /\ UNCHANGED <<requests, samples, responses, errors, backend, linesep, names, idx,
                   cur, hdrOk, console, prevConsole, runs, samples0, errors0>>

SpecInit == InitNew /\ [][ConstructCall]_vars

\* C13: after Test(...) has returned, all four configured directories
\* (responses, samples, requests, errors) exist.
C13_AllFourDirectoriesExist ==
    pc = "idle" => dirs = AllDirs

(***************************************************************************)
(* Status+headers samples and captures: C14-C17 (checked under Spec)       *)
(***************************************************************************)
\* the status+headers files of a directory
SnhFiles(dir) == [f \in {g \in DOMAIN dir : EndsWith(g, SNH)} |-> dir[f]]

\* C14: without a status+headers sample the headers check returns true, and
\* it is no bootstrap point: no step of any run creates or changes a
\* status+headers file in the samples directory; the record is written to the
\* responses directory only.
C14_HeaderSamplesNeverWritten ==
    [][ /\ SnhFiles(samples') = SnhFiles(samples)
        /\ (pc = "check" /\ ~Exists(samples, names[idx] \o SNH)) =>
              /\ hdrOk' = <<TRUE>>
              /\ Exists(responses', names[idx] \o SNH)
              /\ ~Exists(samples', names[idx] \o SNH) ]_vars

\* C14 witness: in a second run a case without a status+headers sample has
\* passed the headers check; its body sample was bootstrapped, its
\* status+headers record is in the responses directory only.
C14_Witness ==
    /\ AfterChecks
    /\ runs = 2
    /\ hdrOk = <<TRUE>>
    /\ ~Exists(samples, LastName \o SNH)
    /\ Exists(samples, LastName \o CNT)
    /\ Exists(responses, LastName \o SNH)
    /\ console[Len(console)] = OkLine(LastName)

\* the responses directory holds, for case name, the body and the
\* status+headers record of the response run() is holding
Captured(name) ==
    /\ Exists(responses, name \o CNT)
    /\ responses[name \o CNT] = WriteText(cur[1].content, linesep)
    /\ Exists(responses, name \o SNH)
    /\ responses[name \o SNH] =
          JsonDumps([Status |-> cur[1].status, Headers |-> cur[1].headers])

\* C15: for every case whose request returned a decodable response, the body
\* and the status+headers record are in the responses directory before the
\* checks of the case are made, and are there after them and after the run,
\* whether the case is reported OK or FAIL.
C15_CaptureStoredBeforeChecks ==
    /\ pc = "check" => Captured(names[idx])
    /\ AfterChecks => Captured(LastName)
    /\ pc = "done" =>
          \A i \in 1..Len(names) :
              Exists(responses, names[i] \o CNT) /\ Exists(responses, names[i] \o SNH)

\* C15 witness: a case has been reported FAIL by the headers check and its
\* capture is in the responses directory.
C15_Witness ==
    /\ AfterChecks
    /\ hdrOk = <<FALSE>>
    /\ console[Len(console)] = FailLine(LastName)
    /\ Captured(LastName)
    /\ Exists(samples, LastName \o CNT)

\* the server's answer to the request of case name
Answer(name) == backend[ParseParam(requests, name)[1].uri]

\* C16: captures are overwritten, not accumulated: whatever the number of
\* runs, a case's files in the responses directory hold exactly the body and
\* the status+headers record of the response last received for it; only the
\* error log grows by appending.
C16_CapturesOverwritten ==
    /\ [](\A name \in Cases :
            Exists(responses, name \o CNT) =>
                /\ ParseParam(requests, name) # <<>>
                /\ responses[name \o CNT] = WriteText(Answer(name).content.text, linesep)
                /\ responses[name \o SNH] =
                      JsonDumps([Status |-> Answer(name).status,
                                 Headers |-> Answer(name).headers]))
    /\ [][ (runs' = runs /\ errors' # errors) =>
              ErrorLog(errors') = ErrorLog(errors) \o <<FailLine(names[idx])>> ]_vars

\* C16 witness: after a second run in which both cases failed, a case's
\* capture holds one copy of the server's body and the error log two lines.
C16_Witness ==
    /\ pc = "done"
    /\ runs = 2
    /\ Len(names) = 2
    /\ names[1] # names[2]
    /\ \A i \in 1..2 : responses[names[i] \o CNT] = WriteText(Answer(names[i]).content.text, linesep)
    /\ Len(FailLines(console)) = 2
    /\ ErrorLog(errors) = FailLines(console)

\* C17: when the body of a case's response does not decode, nothing has been
\* stored for the case: the responses directory, the samples directory and
\* the error log are as they were before the case, and so keep the captures,
\* bootstrapped samples and error lines of the cases processed before it.
C17_DecodeFailureStoresNothing ==
    /\ [][ (AtCase /\ ResponseUndecodable) =>
              /\ pc' = "aborted"
              /\ responses' = responses
              /\ samples' = samples
              /\ errors' = errors ]_vars
    /\ [](pc = "aborted" =>
            /\ \A i \in 1..(idx - 1) :
                  /\ Exists(responses, names[i] \o CNT)
                  /\ Exists(responses, names[i] \o SNH)
                  /\ console[i] = OkLine(names[i]) => Exists(samples, names[i] \o CNT)
            /\ IsSuffix(FailLines(console), ErrorLog(errors)))

\* C17 witness: the first run was left at its second case, whose response
\* does not decode: the first case's capture and bootstrapped sample are
\* there, the second case has no file in the responses directory.
C17_Witness ==
    /\ pc = "aborted"
    /\ runs = 1
    /\ idx = 2
    /\ ResponseUndecodable
    /\ Exists(responses, names[1] \o CNT)
    /\ ~Exists(samples0, names[1] \o CNT)
    /\ Exists(samples, names[1] \o CNT)
    /\ ~Exists(responses, names[2] \o CNT)
    /\ ~Exists(responses, names[2] \o SNH)
    /\ ~Exists(samples, names[2] \o CNT)

====
